---- MODULE Spec2Model ----
(***************************************************************************)
(* Model of modules/llama_cpp_python_hijack.py: the selection of the       *)
(* llama-cpp-python variant (llama_cpp_lib) and the one-time patch step    *)
(* (monkey_patch_llama_cpp_python), and the replacement methods the patch  *)
(* step installs (eval_with_progress, my_generate).                        *)
(*                                                                         *)
(* One llama_cpp_lib() call is one action.  Its inputs are the flags read  *)
(* from shared.args at call time and the behaviour of the interpreter's    *)
(* import machinery for modules that are not loaded yet.                   *)
(***************************************************************************)
EXTENDS Integers, Sequences, FiniteSets, TLC

\* Number of llama_cpp_lib() calls explored in one behaviour.
MaxCalls == 3

\* Context length of the Llama instance eval_with_progress runs on.
N_ctx == 4

\* Largest n_batch of that instance.
MaxBatch == 2

\* Longest token sequence passed to one eval_with_progress call.
MaxTokens == 3

\* Most outputs the library's own generate produces in one generator.
MaxOutputs == 2

\* Python's None, for the marker, for a candidate without requirement and
\* for the null result.
None == "None"

\* The variant names of the candidate lists.
Libs == {"llama_cpp", "llama_cpp_cuda_tensorcores", "llama_cpp_cuda"}

\* The flags of shared.args that gate a candidate.
ArgNames == {"cpu", "tensorcores"}

\* The values shared.args can have at call time.
ArgsSet == [ArgNames -> BOOLEAN]

\* What importing a module that is not loaded yet can do: succeed, raise
\* ImportError (module not found), or raise another exception.
ImportOutcomes == {"ok", "ImportError", "OtherError"}

(***************************************************************************)
(* Library objects.  A loaded library may or may not have the attributes   *)
(* the patch step touches.                                                 *)
(***************************************************************************)

\* The Llama attribute of a library that has none.
NoLlama ==
  [present |-> FALSE, eval |-> None, generate |-> None,
   original_generate |-> None, is_patched |-> FALSE]

\* The Llama class of a library as shipped.
FreshLlama ==
  [present |-> TRUE, eval |-> "Llama.eval", generate |-> "Llama.generate",
   original_generate |-> None, is_patched |-> FALSE]

\* llama_chat_format.Jinja2ChatFormatter of a library that has none.
NoFormatter == [present |-> FALSE, init |-> None, is_patched |-> FALSE]

\* llama_chat_format.Jinja2ChatFormatter as shipped.
FreshFormatter ==
  [present |-> TRUE, init |-> "Jinja2ChatFormatter.__init__", is_patched |-> FALSE]

\* A module that is not in the interpreter's module table.
NotLoaded == [loaded |-> FALSE, Llama |-> NoLlama, Formatter |-> NoFormatter]

\* The module objects a first import can produce.
FreshModules ==
  {[loaded |-> TRUE, Llama |-> l, Formatter |-> f] :
     l \in {NoLlama, FreshLlama}, f \in {NoFormatter, FreshFormatter}}

VARIABLES
  is_macos,               \* platform.system() == 'Darwin'
  imported_module,        \* the loaded-variant marker
  not_available_modules,  \* the unavailable-variant set
  modules,                \* the interpreter's module table, per variant name
  import_calls,           \* importlib.import_module invocations per name
  loads,                  \* first-time loads (module executions) per name
  n_calls,                \* llama_cpp_lib() calls made so far
  last,                   \* record of the last llama_cpp_lib() call
  patch_log,              \* record of the last patch step
  llm,                    \* the Llama instance eval_with_progress is bound to
  eval_log,               \* record of the last eval_with_progress call
  streaming_llm,          \* shared.args.streaming_llm
  gen,                    \* the generator of the last Llama.generate call
  shared_args,            \* shared.args, as the threads below read it
  pc,                     \* where each thread is in its llama_cpp_lib() call
  loc,                    \* the local variables of each thread's call
  marker_writes           \* the writes to imported_module, in order

\* The state of the variant selection.
selector_vars ==
  <<is_macos, imported_module, not_available_modules, modules, import_calls,
    loads, n_calls, last, patch_log>>

\* The state of the instance the patched eval runs on.
eval_vars == <<llm, eval_log>>

\* The state my_generate reads and the generator it returns.
generate_vars == <<streaming_llm, gen>>

\* The state of llama_cpp_lib() calls running in threads.
thread_vars == <<shared_args, pc, loc, marker_writes>>

vars == <<selector_vars, eval_vars, generate_vars, thread_vars>>

(***************************************************************************)
(* llama_cpp_lib                                                           *)
(***************************************************************************)

lib_names_any_platform(macos) ==
  << [arg |-> "cpu", lib |-> "llama_cpp"],
     [arg |-> "tensorcores", lib |-> "llama_cpp_cuda_tensorcores"],
     [arg |-> None, lib |-> "llama_cpp_cuda"],
     [arg |-> None, lib |-> "llama_cpp"] >>

\* The candidate list, by platform.
lib_names(macos) ==
  IF macos
    THEN << [arg |-> None, lib |-> "llama_cpp"] >>
    ELSE << [arg |-> "cpu", lib |-> "llama_cpp"],
            [arg |-> "tensorcores", lib |-> "llama_cpp_cuda_tensorcores"],
            [arg |-> None, lib |-> "llama_cpp_cuda"],
            [arg |-> None, lib |-> "llama_cpp"] >>

known_unavailable_never(lib_name, unavailable) == FALSE

\* `if lib_name in not_available_modules: continue`
known_unavailable(lib_name, unavailable) == lib_name \in unavailable

should_import_always(arg, args) == TRUE

\* `should_import = (arg is None or getattr(shared.args, arg))`
should_import(arg, args) == arg = None \/ args[arg]

conflict_never(marker, lib_name) == FALSE

\* `if imported_module and imported_module != lib_name`
conflict(marker, lib_name) == marker # None /\ marker # lib_name

handled_any(exc) == TRUE

\* `except ImportError:` the only exception the loop handles.
handled(exc) == exc = "ImportError"

mark_unavailable_noop(unavailable, lib_name) == unavailable

mark_unavailable_reset(unavailable, lib_name) == {lib_name}

\* `not_available_modules.add(lib_name)`
mark_unavailable(unavailable, lib_name) == unavailable \cup {lib_name}

\* importlib.import_module(lib_name): a module already in the module table
\* is returned as is; otherwise the module is loaded, or the load fails.
import_module(mods, lib_name, imp, fresh) ==
  IF mods[lib_name].loaded
    THEN [exc |-> None, module |-> mods[lib_name], first |-> FALSE]
    ELSE IF imp[lib_name] = "ok"
      THEN [exc |-> None, module |-> fresh, first |-> TRUE]
      ELSE [exc |-> imp[lib_name], module |-> NotLoaded, first |-> FALSE]

(***************************************************************************)
(* monkey_patch_llama_cpp_python                                           *)
(***************************************************************************)

already_patched_never(cls) == FALSE

\* `getattr(lib.Llama, '_is_patched', False)`
already_patched(cls) == cls.is_patched

\* The Llama class after the three assignments and the final marker.
patch_Llama(cls) ==
  [present |-> TRUE,
   eval |-> "eval_with_progress",
   original_generate |-> cls.generate,
   generate |-> "my_generate",
   is_patched |-> TRUE]

\* The Jinja2ChatFormatter patch, applied when the library has the class
\* and the class is not patched yet.
patch_Formatter(fmt) ==
  IF fmt.present /\ ~fmt.is_patched
    THEN [present |-> TRUE, init |-> "patched_init", is_patched |-> TRUE]
    ELSE fmt

monkey_patch_skipped(lib) == [exc |-> None, module |-> lib]

\* The patch step on a library object: the exception it raises (None when
\* it returns) and the library afterwards.  `lib.Llama` raises on a library
\* without that attribute, before anything is changed.
monkey_patch_llama_cpp_python(lib) ==
  IF ~lib.Llama.present
    THEN [exc |-> "AttributeError", module |-> lib]
    ELSE IF already_patched(lib.Llama)
      THEN [exc |-> None, module |-> lib]
      ELSE [exc |-> None,
            module |-> [lib EXCEPT !.Llama = patch_Llama(@),
                                   !.Formatter = patch_Formatter(@)]]

(***************************************************************************)
(* The body of llama_cpp_lib, from candidate i of the list on.  st holds   *)
(* the globals and what the call has done so far.                          *)
(***************************************************************************)

\* The try block of candidate i: import, set the marker, patch, return.
\* st.exc is the exception the block ends with, None when it returned.
try_import(st, i, lib_name, imp, fresh) ==
  LET r == import_module(st.modules, lib_name, imp, fresh)
      tried == [st EXCEPT !.attempts =
                             Append(@, [i |-> i, lib |-> lib_name,
                                        known |-> lib_name \in st.not_available_modules,
                                        exc |-> r.exc]),
                          !.import_calls[lib_name] = @ + 1,
                          !.loads[lib_name] = @ + (IF r.first THEN 1 ELSE 0)]
  IN IF r.exc # None
       THEN [tried EXCEPT !.exc = r.exc]
       ELSE LET p == monkey_patch_llama_cpp_python(r.module)
                set == [tried EXCEPT !.imported_module = lib_name,
                                     !.modules[lib_name] = p.module,
                                     !.patched = Append(@, [lib |-> lib_name,
                                                            before |-> r.module,
                                                            after |-> p.module,
                                                            exc |-> p.exc])]
            IN IF p.exc # None
                 THEN [set EXCEPT !.exc = p.exc]
                 ELSE [set EXCEPT !.outcome = "return", !.value = lib_name]

\* The loop over the candidates and the final `return None`.  outcome is
\* "return" (value: the variant whose handle is returned, or None) or
\* "raise" (value: the exception).
RECURSIVE llama_cpp_lib_from(_, _, _, _, _, _)
llama_cpp_lib_from(names, i, st, args, imp, fresh) ==
  IF i > Len(names)
    THEN [st EXCEPT !.outcome = "return", !.value = None]
    ELSE
      LET arg == names[i].arg
          lib_name == names[i].lib
      IN IF known_unavailable(lib_name, st.not_available_modules)
           THEN llama_cpp_lib_from(names, i + 1, st, args, imp, fresh)
         ELSE IF ~should_import(arg, args)
           THEN llama_cpp_lib_from(names, i + 1, st, args, imp, fresh)
         ELSE IF conflict(st.imported_module, lib_name)
           THEN [st EXCEPT !.outcome = "raise", !.value = "Conflict",
                           !.refused = lib_name]
         ELSE
           LET t == try_import(st, i, lib_name, imp, fresh)
           IN IF t.outcome = "return"
                THEN t
              ELSE IF handled(t.exc)
                THEN llama_cpp_lib_from(
                       names, i + 1,
                       [t EXCEPT !.exc = None,
                                 !.not_available_modules =
                                    mark_unavailable(@, lib_name),
                                 !.caught = Append(@, lib_name)],
                       args, imp, fresh)
              ELSE [t EXCEPT !.outcome = "raise", !.value = t.exc]

(***************************************************************************)
(* eval_with_progress                                                      *)
(***************************************************************************)

\* Token ids.
TokenIds == {1, 2}

\* The token sequences passed to eval_with_progress.
TokenSeqs == UNION {[1..n -> TokenIds] : n \in 0..MaxTokens}

Min2(a, b) == IF a <= b THEN a ELSE b

\* A Llama instance as constructed: nothing evaluated, input_ids of length
\* n_ctx, an empty KV cache.
NewLlama(n_batch, logits_all) ==
  [n_ctx |-> N_ctx, n_batch |-> n_batch, logits_all |-> logits_all,
   scores_rows |-> IF logits_all THEN N_ctx ELSE n_batch,
   n_tokens |-> 0, input_ids |-> [k \in 1..N_ctx |-> 0],
   kv_cells |-> 0, last_updated_index |-> -1]

\* `self._ctx.kv_cache_seq_rm(-1, self.n_tokens, -1)`: the cache keeps the
\* cells of the positions below n_tokens.
kv_cache_seq_rm(self) == [self EXCEPT !.kv_cells = Min2(@, self.n_tokens)]

batch_of_overlapping(tokens, i, n_batch) ==
  SubSeq(tokens, i + 1, Min2(Len(tokens), i + n_batch + 1))

\* `batch = tokens[i : min(len(tokens), i + self.n_batch)]`, i counted from 0.
batch_of(tokens, i, n_batch) ==
  SubSeq(tokens, i + 1, Min2(Len(tokens), i + n_batch))

\* `self._ctx.decode(self._batch)`: raises when the cache has no room for
\* the batch, and fills one cell per token otherwise.
decode(self, batch) ==
  IF self.kv_cells + Len(batch) > self.n_ctx
    THEN [exc |-> "RuntimeError", self |-> self]
    ELSE [exc |-> None, self |-> [self EXCEPT !.kv_cells = @ + Len(batch)]]

\* `self.input_ids[n_past : n_past + n_tokens] = batch`
save_tokens(input_ids, n_past, batch) ==
  [k \in DOMAIN input_ids |->
     IF k > n_past /\ k <= n_past + Len(batch)
       THEN batch[k - n_past]
       ELSE input_ids[k]]

\* The index the logits of the batch are stored under.
updated_index(self, n_past, n_tokens) ==
  IF self.logits_all
    THEN n_past + n_tokens - 1
    ELSE Min2(n_past + n_tokens - 1, self.scores_rows - 1)

\* The loop of eval_with_progress from offset i of tokens on.  st.batches
\* lists the batches decoded so far, each with its offset and its n_past.
RECURSIVE eval_from(_, _, _)
eval_from(st, tokens, i) ==
  IF i >= Len(tokens)
    THEN st
    ELSE
      LET batch == batch_of(tokens, i, st.self.n_batch)
          n_past == st.self.n_tokens
          n_tokens == Len(batch)
          d == decode(st.self, batch)
      IN IF d.exc # None
           THEN [st EXCEPT !.exc = d.exc,
                           !.failed = [start |-> i, batch |-> batch,
                                       n_past |-> n_past]]
           ELSE eval_from(
                  [st EXCEPT
                     !.self = [d.self EXCEPT
                                 !.input_ids = save_tokens(@, n_past, batch),
                                 !.last_updated_index =
                                    updated_index(d.self, n_past, n_tokens),
                                 !.n_tokens = @ + n_tokens],
                     !.batches = Append(@, [start |-> i, batch |-> batch,
                                            n_past |-> n_past])],
                  tokens, i + st.self.n_batch)

\* No batch: the value of `failed` when every decode succeeded.
NoBatch == [start |-> -1, batch |-> << >>, n_past |-> -1]

\* eval_with_progress(self, tokens): the instance afterwards, the batches
\* decoded, and the exception the call ends with (None when it returns).
eval_with_progress(self, tokens) ==
  eval_from([self |-> kv_cache_seq_rm(self), batches |-> << >>,
             failed |-> NoBatch, exc |-> None],
            tokens, 0)

\* The record kept of an eval_with_progress call; this one stands for "no
\* call made yet".
NoEval ==
  [called |-> FALSE, tokens |-> << >>, pre |-> NewLlama(1, FALSE),
   batches |-> << >>, failed |-> NoBatch, exc |-> None, tqdm |-> FALSE]

(***************************************************************************)
(* my_generate, the generator function installed as Llama.generate         *)
(***************************************************************************)

\* The sequences of outputs the library's own generate can produce.
OutputSeqs == UNION {[1..n -> TokenIds] : n \in 0..MaxOutputs}

\* The arguments of a generate call: the token sequence is passed either
\* as the first positional argument or as the keyword argument `tokens`.
CallArgs(tokens, positional) ==
  [args |-> IF positional THEN << tokens >> ELSE << >>,
   kwargs |-> IF positional THEN {} ELSE {<< "tokens", tokens >>}]

\* No generate call yet.
NoGenerator ==
  [state |-> "none", call |-> CallArgs(<< >>, TRUE), outputs |-> << >>,
   flag |-> FALSE, trims |-> << >>, original_called |-> FALSE,
   passed |-> CallArgs(<< >>, TRUE), yielded |-> << >>, events |-> << >>,
   exc |-> None]

\* Calling the generator function runs none of its body.
my_generate(call, outputs) ==
  [NoGenerator EXCEPT !.state = "created", !.call = call, !.outputs = outputs]

\* `for output in self.original_generate(...): yield output`: the next
\* output is yielded, or the generator finishes when there is none.
yield_next(g) ==
  IF Len(g.yielded) < Len(g.outputs)
    THEN [g EXCEPT !.state = "running",
                   !.yielded = Append(@, g.outputs[Len(g.yielded) + 1]),
                   !.events = Append(@, "output")]
    ELSE [g EXCEPT !.state = "done"]

\* `self.original_generate(*args, **kwargs)`
call_original_generate(g) ==
  [g EXCEPT !.original_called = TRUE, !.passed = g.call]

\* The body of my_generate up to its first yield, under the value flag of
\* shared.args.streaming_llm.  `args[0]` raises IndexError when no
\* positional argument was passed.
my_generate_start(g, flag) ==
  IF flag
    THEN IF Len(g.call.args) = 0
      THEN [g EXCEPT !.flag = flag, !.state = "raised", !.exc = "IndexError"]
      ELSE yield_next(call_original_generate(
             [g EXCEPT !.flag = flag,
                       !.trims = Append(@, [new_sequence |-> g.call.args[1],
                                            past_sequence |-> "self._input_ids"]),
                       !.events = Append(@, "process_llamacpp_cache")]))
    ELSE yield_next(call_original_generate([g EXCEPT !.flag = flag]))

(***************************************************************************)
(* llama_cpp_lib called from threads: the same code, one step per          *)
(* statement that reads or writes the globals.                             *)
(***************************************************************************)

\* The threads that call llama_cpp_lib().
Threads == {"t1", "t2"}

\* The local variables of a call that has not started.
NoLocals ==
  [i |-> 0, lib_name |-> None, seen |-> None, exc |-> None, result |-> None]

(***************************************************************************)
(* State machine                                                           *)
(***************************************************************************)

\* No thread is running llama_cpp_lib().
ThreadsIdle ==
  /\ shared_args = [a \in ArgNames |-> FALSE]
  /\ pc = [t \in Threads |-> "idle"]
  /\ loc = [t \in Threads |-> NoLocals]
  /\ marker_writes = << >>

\* The record kept of a llama_cpp_lib() call; this one stands for "no call
\* made yet".
NoCall ==
  [called |-> FALSE, args |-> [a \in ArgNames |-> FALSE],
   pre_imported |-> None, pre_not_available |-> {},
   pre_modules |-> [l \in Libs |-> NotLoaded],
   attempts |-> << >>, caught |-> << >>, patched |-> << >>,
   outcome |-> "none", value |-> None, refused |-> None]

\* The record kept of a patch step; this one stands for "none applied yet".
NoPatch ==
  [applied |-> FALSE, lib |-> None, before |-> NotLoaded, after |-> NotLoaded,
   exc |-> None]

\* Module import: the marker is None, the set is empty, no variant loaded.
Init ==
  /\ is_macos \in BOOLEAN
  /\ imported_module = None
  /\ not_available_modules = {}
  /\ modules = [l \in Libs |-> NotLoaded]
  /\ import_calls = [l \in Libs |-> 0]
  /\ loads = [l \in Libs |-> 0]
  /\ n_calls = 0
  /\ last = NoCall
  /\ patch_log = NoPatch
  /\ llm = NewLlama(1, FALSE)
  /\ eval_log = NoEval
  /\ streaming_llm = FALSE
  /\ gen = NoGenerator
  /\ ThreadsIdle

\* One call of llama_cpp_lib() under flags args; imp and fresh say what
\* the import of a module that is not loaded yet does.
Call_llama_cpp_lib ==
  /\ n_calls < MaxCalls
  /\ \E args \in ArgsSet, imp \in [Libs -> ImportOutcomes], fresh \in FreshModules :
       \E r \in {llama_cpp_lib_from(
                   lib_names(is_macos), 1,
                   [imported_module |-> imported_module,
                    not_available_modules |-> not_available_modules,
                    modules |-> modules,
                    import_calls |-> import_calls,
                    loads |-> loads,
                    attempts |-> << >>, caught |-> << >>, patched |-> << >>,
                    exc |-> None, outcome |-> "none", value |-> None,
                    refused |-> None],
                   args, imp, fresh)} :
          /\ imported_module' = r.imported_module
          /\ not_available_modules' = r.not_available_modules
          /\ modules' = r.modules
          /\ import_calls' = r.import_calls
          /\ loads' = r.loads
          /\ last' = [called |-> TRUE, args |-> args,
                      pre_imported |-> imported_module,
                      pre_not_available |-> not_available_modules,
                      pre_modules |-> modules,
                      attempts |-> r.attempts, caught |-> r.caught,
                      patched |-> r.patched,
                      outcome |-> r.outcome, value |-> r.value,
                      refused |-> r.refused]
          /\ patch_log' =
               IF r.patched = << >>
                 THEN patch_log
                 ELSE LET p == r.patched[Len(r.patched)]
                      IN [applied |-> TRUE, lib |-> p.lib, before |-> p.before,
                          after |-> p.after, exc |-> p.exc]
  /\ n_calls' = n_calls + 1
  /\ UNCHANGED <<is_macos, eval_vars, generate_vars, thread_vars>>

\* A direct call of monkey_patch_llama_cpp_python(lib) on a loaded library.
Call_monkey_patch ==
  \E l \in Libs :
    /\ modules[l].loaded
    /\ LET p == monkey_patch_llama_cpp_python(modules[l])
       IN /\ modules' = [modules EXCEPT ![l] = p.module]
          /\ patch_log' = [applied |-> TRUE, lib |-> l, before |-> modules[l],
                           after |-> p.module, exc |-> p.exc]
    /\ UNCHANGED <<is_macos, imported_module, not_available_modules,
                   import_calls, loads, n_calls, last, eval_vars,
                   generate_vars, thread_vars>>

Next == Call_llama_cpp_lib \/ Call_monkey_patch

Spec == Init /\ [][Next]_vars

\* A Llama instance of a patched library, with any batch size and either
\* logits mode; no variant selection is going on.
InitEval ==
  /\ is_macos = FALSE
  /\ imported_module = None
  /\ not_available_modules = {}
  /\ modules = [l \in Libs |-> NotLoaded]
  /\ import_calls = [l \in Libs |-> 0]
  /\ loads = [l \in Libs |-> 0]
  /\ n_calls = 0
  /\ last = NoCall
  /\ patch_log = NoPatch
  /\ \E n_batch \in 1..MaxBatch, logits_all \in BOOLEAN :
       llm = NewLlama(n_batch, logits_all)
  /\ eval_log = NoEval
  /\ streaming_llm = FALSE
  /\ gen = NoGenerator
  /\ ThreadsIdle

\* One call of Llama.eval, which is eval_with_progress, on tokens.
Call_eval_with_progress ==
  /\ \E tokens \in TokenSeqs :
       \E r \in {eval_with_progress(llm, tokens)} :
         /\ llm' = r.self
         /\ eval_log' = [called |-> TRUE, tokens |-> tokens, pre |-> llm,
                         batches |-> r.batches, failed |-> r.failed,
                         exc |-> r.exc,
                         tqdm |-> Len(tokens) > llm.n_batch]
  /\ UNCHANGED <<selector_vars, generate_vars, thread_vars>>

NextEval == Call_eval_with_progress

SpecEval == InitEval /\ [][NextEval]_vars

\* A patched Llama class, no generate call made yet, the flag either way.
InitGenerate ==
  /\ is_macos = FALSE
  /\ imported_module = None
  /\ not_available_modules = {}
  /\ modules = [l \in Libs |-> NotLoaded]
  /\ import_calls = [l \in Libs |-> 0]
  /\ loads = [l \in Libs |-> 0]
  /\ n_calls = 0
  /\ last = NoCall
  /\ patch_log = NoPatch
  /\ llm = NewLlama(1, FALSE)
  /\ eval_log = NoEval
  /\ streaming_llm \in BOOLEAN
  /\ gen = NoGenerator
  /\ ThreadsIdle

\* A call of Llama.generate, which is my_generate: a new generator.  The
\* outputs are those the library's own generate will produce.
Call_generate ==
  /\ gen.state \in {"none", "done", "raised"}
  /\ \E tokens \in TokenSeqs, positional \in BOOLEAN, outputs \in OutputSeqs :
       gen' = my_generate(CallArgs(tokens, positional), outputs)
  /\ UNCHANGED <<selector_vars, eval_vars, streaming_llm, thread_vars>>

\* The consumer asks the generator for its next item.
Next_generate ==
  /\ gen.state \in {"created", "running"}
  /\ gen' = IF gen.state = "created"
              THEN my_generate_start(gen, streaming_llm)
              ELSE yield_next(gen)
  /\ UNCHANGED <<selector_vars, eval_vars, streaming_llm, thread_vars>>

\* The setting shared.args.streaming_llm is changed.
Set_streaming_llm ==
  /\ streaming_llm' = ~streaming_llm
  /\ UNCHANGED <<selector_vars, eval_vars, gen, thread_vars>>

NextGenerate == Call_generate \/ Next_generate \/ Set_streaming_llm

SpecGenerate == InitGenerate /\ [][NextGenerate]_vars

\* Module import on a host that is not macOS; the threads have not called
\* llama_cpp_lib() yet.
InitThreads ==
  /\ is_macos = FALSE
  /\ imported_module = None
  /\ not_available_modules = {}
  /\ modules = [l \in Libs |-> NotLoaded]
  /\ import_calls = [l \in Libs |-> 0]
  /\ loads = [l \in Libs |-> 0]
  /\ n_calls = 0
  /\ last = NoCall
  /\ patch_log = NoPatch
  /\ llm = NewLlama(1, FALSE)
  /\ eval_log = NoEval
  /\ streaming_llm = FALSE
  /\ gen = NoGenerator
  /\ shared_args \in ArgsSet
  /\ pc = [t \in Threads |-> "idle"]
  /\ loc = [t \in Threads |-> NoLocals]
  /\ marker_writes = << >>

\* What a thread step leaves alone besides the globals it works on.
ThreadFrame ==
  UNCHANGED <<is_macos, import_calls, loads, n_calls, last, patch_log,
              eval_vars, generate_vars, shared_args>>

\* Thread t calls llama_cpp_lib(): the candidate list is built and the loop
\* starts at its first entry.
T_call(t) ==
  /\ pc[t] = "idle"
  /\ pc' = [pc EXCEPT ![t] = "check"]
  /\ loc' = [loc EXCEPT ![t] = [NoLocals EXCEPT !.i = 1]]
  /\ UNCHANGED <<imported_module, not_available_modules, modules, marker_writes>>
  /\ ThreadFrame

\* Thread t at the head of the loop body: the end of the list returns
\* None; a candidate is skipped, refused with the conflict error, or taken
\* to the try block.  seen is the marker the check at line 41 read.
T_check(t) ==
  /\ pc[t] = "check"
  /\ LET names == lib_names(is_macos)
         i == loc[t].i
     IN IF i > Len(names)
          THEN /\ pc' = [pc EXCEPT ![t] = "done"]
               /\ loc' = [loc EXCEPT ![t].result = None]
          ELSE IF \/ known_unavailable(names[i].lib, not_available_modules)
                  \/ ~should_import(names[i].arg, shared_args)
            THEN /\ pc' = pc
                 /\ loc' = [loc EXCEPT ![t].i = i + 1]
          ELSE IF conflict(imported_module, names[i].lib)
            THEN /\ pc' = [pc EXCEPT ![t] = "raised"]
                 /\ loc' = [loc EXCEPT ![t].exc = "Conflict",
                                       ![t].lib_name = names[i].lib]
          ELSE /\ pc' = [pc EXCEPT ![t] = "import"]
               /\ loc' = [loc EXCEPT ![t].lib_name = names[i].lib,
                                     ![t].seen = imported_module]
  /\ UNCHANGED <<imported_module, not_available_modules, modules, marker_writes>>
  /\ ThreadFrame

\* Thread t at line 46: the import returns the module, or raises.
T_import(t) ==
  /\ pc[t] = "import"
  /\ \E outcome \in ImportOutcomes, fresh \in FreshModules :
       LET r == import_module(modules, loc[t].lib_name,
                              [l \in Libs |-> outcome], fresh)
       IN IF r.exc = None
            THEN /\ modules' = [modules EXCEPT ![loc[t].lib_name] = r.module]
                 /\ pc' = [pc EXCEPT ![t] = "set"]
                 /\ loc' = loc
            ELSE /\ modules' = modules
                 /\ pc' = [pc EXCEPT ![t] = IF handled(r.exc) THEN "except"
                                                              ELSE "raised"]
                 /\ loc' = [loc EXCEPT ![t].exc = r.exc]
  /\ UNCHANGED <<imported_module, not_available_modules, marker_writes>>
  /\ ThreadFrame

\* Thread t at line 47: `imported_module = lib_name`.
T_set(t) ==
  /\ pc[t] = "set"
  /\ imported_module' = loc[t].lib_name
  /\ marker_writes' = Append(marker_writes,
                             [thread |-> t, name |-> loc[t].lib_name,
                              seen |-> loc[t].seen, before |-> imported_module])
  /\ pc' = [pc EXCEPT ![t] = "patch"]
  /\ UNCHANGED <<not_available_modules, modules, loc>>
  /\ ThreadFrame

\* Thread t at lines 48-49: the patch step, taken as one step, then the
\* return of the handle.
T_patch(t) ==
  /\ pc[t] = "patch"
  /\ LET p == monkey_patch_llama_cpp_python(modules[loc[t].lib_name])
     IN /\ modules' = [modules EXCEPT ![loc[t].lib_name] = p.module]
        /\ IF p.exc = None
             THEN /\ pc' = [pc EXCEPT ![t] = "done"]
                  /\ loc' = [loc EXCEPT ![t].result = loc[t].lib_name]
             ELSE /\ pc' = [pc EXCEPT ![t] = IF handled(p.exc) THEN "except"
                                                               ELSE "raised"]
                  /\ loc' = [loc EXCEPT ![t].exc = p.exc]
  /\ UNCHANGED <<imported_module, not_available_modules, marker_writes>>
  /\ ThreadFrame

\* Thread t at lines 50-52: the variant is recorded as unavailable and the
\* loop goes on with the next candidate.
T_except(t) ==
  /\ pc[t] = "except"
  /\ not_available_modules' =
       mark_unavailable(not_available_modules, loc[t].lib_name)
  /\ pc' = [pc EXCEPT ![t] = "check"]
  /\ loc' = [loc EXCEPT ![t].i = @ + 1, ![t].exc = None]
  /\ UNCHANGED <<imported_module, modules, marker_writes>>
  /\ ThreadFrame

\* The flags of shared.args are changed while calls are running.
Set_shared_args ==
  /\ \E a \in ArgsSet : a # shared_args /\ shared_args' = a
  /\ UNCHANGED <<selector_vars, eval_vars, generate_vars, pc, loc,
                 marker_writes>>

NextThreads ==
  \/ \E t \in Threads :
       \/ T_call(t)
       \/ T_check(t)
       \/ T_import(t)
       \/ T_set(t)
       \/ T_patch(t)
       \/ T_except(t)
  \/ Set_shared_args

SpecThreads == InitThreads /\ [][NextThreads]_vars

(***************************************************************************)
(* Properties                                                              *)
(***************************************************************************)

\* The candidates of the last call.
LastNames == lib_names(is_macos)

\* Candidate i was eligible under the flags of the last call.
Eligible(i) == LastNames[i].arg = None \/ last.args[LastNames[i].arg]

\* The candidates that were eligible and not known unavailable when the
\* last call started.
Wanted ==
  {i \in 1..Len(LastNames) :
     Eligible(i) /\ LastNames[i].lib \notin last.pre_not_available}

\* The variant names the last call tried to import.
Attempted == {last.attempts[k].lib : k \in 1..Len(last.attempts)}

\* The variants that have been loaded in this process.
Loaded == {l \in Libs : loads[l] > 0}

\* C1: the loaded-variant marker, once set to a variant name, never changes
\* to another value, and at most one variant name is ever loaded in the
\* process (the one the marker names).
C1_MarkerSetOnce ==
  [][/\ imported_module # None => imported_module' = imported_module
     /\ Cardinality({l \in Libs : loads'[l] > 0}) <= 1
     /\ \A l \in Libs : modules'[l].loaded => l = imported_module']_vars

\* A call was made under flags that prefer llama_cpp while another variant
\* was loaded, and the marker still names that variant.
C1_Witness ==
  /\ last.called
  /\ last.pre_imported \notin {None, "llama_cpp"}
  /\ last.args["cpu"]
  /\ imported_module = last.pre_imported
  /\ Loaded = {imported_module}

\* C2: when variant A is loaded and a call is made whose first eligible,
\* not-unavailable candidate is another variant B, the call raises the
\* conflict error (naming B) and the marker is still A afterwards.
C2_ConflictRaised ==
  (/\ last.called
   /\ last.pre_imported # None
   /\ Wanted # {}
   /\ \A i \in Wanted :
        (\A j \in Wanted : i <= j) => LastNames[i].lib # last.pre_imported)
  => /\ last.outcome = "raise"
     /\ last.value = "Conflict"
     /\ \A i \in Wanted : (\A j \in Wanted : i <= j) => last.refused = LastNames[i].lib
     /\ last.attempts = << >>
     /\ imported_module = last.pre_imported

\* The last call was refused with the conflict error.
C2_Witness ==
  /\ last.called
  /\ last.pre_imported # None
  /\ last.outcome = "raise"
  /\ last.value = "Conflict"
  /\ last.refused \notin {None, last.pre_imported}

\* C3 as stated: over calls that request the same, already loaded variant,
\* only one import attempt of it occurs.
C3_OneImportAttempt ==
  (/\ last.called
   /\ last.pre_imported # None
   /\ last.outcome = "return"
   /\ last.value = last.pre_imported)
  => import_calls[last.value] <= 1

\* C3, amended: a call that returns the already loaded variant makes exactly
\* one import attempt, of that variant; the attempt is answered from the
\* module table, so the variant is still loaded once only and the library
\* object is the one the earlier call left.
C3_ReimportFromTable ==
  (/\ last.called
   /\ last.pre_imported # None
   /\ last.outcome = "return"
   /\ last.value # None)
  => /\ last.value = last.pre_imported
     /\ Len(last.attempts) = 1
     /\ last.attempts[1].lib = last.value
     /\ last.attempts[1].exc = None
     /\ import_calls[last.value] >= 2
     /\ loads[last.value] = 1
     /\ modules[last.value] = last.pre_modules[last.value]

\* A call returned the variant an earlier call had loaded.
C3_Witness ==
  /\ last.called
  /\ last.pre_imported # None
  /\ last.outcome = "return"
  /\ last.value = last.pre_imported
  /\ import_calls[last.value] >= 2

\* C4: a variant name that was in not_available_modules when a call started
\* (or when the attempt was made) is not among the call's import attempts.
C4_NoRetry ==
  \A k \in 1..Len(last.attempts) :
    /\ last.attempts[k].lib \notin last.pre_not_available
    /\ ~last.attempts[k].known

\* A call made import attempts while an eligible candidate was already
\* known unavailable.
C4_Witness ==
  /\ last.called
  /\ last.attempts # << >>
  /\ \E i \in 1..Len(LastNames) :
       Eligible(i) /\ LastNames[i].lib \in last.pre_not_available

\* C5: when a call returns a handle, the marker names the returned variant
\* and the library's Llama class carries the patch-applied marker.
C5_ReturnedIsMarkedAndPatched ==
  (last.called /\ last.outcome = "return" /\ last.value # None)
  => /\ imported_module = last.value
     /\ modules[last.value].loaded
     /\ modules[last.value].Llama.is_patched
     /\ modules[last.value].Llama.generate = "my_generate"
     /\ modules[last.value].Llama.eval = "eval_with_progress"

\* A call loaded a variant for the first time and returned its handle.
C5_Witness ==
  /\ last.called
  /\ last.pre_imported = None
  /\ last.outcome = "return"
  /\ last.value # None
  /\ loads[last.value] = 1

\* C6: a patch step on a library whose Llama class is already patched
\* changes nothing, and in a patched class original_generate is the
\* library's own generate, never the wrapper.
C6_PatchIdempotent ==
  /\ (patch_log.applied /\ patch_log.before.Llama.is_patched)
       => /\ patch_log.exc = None
          /\ patch_log.after = patch_log.before
  /\ \A l \in Libs :
       modules[l].Llama.is_patched
         => /\ modules[l].Llama.original_generate = "Llama.generate"
            /\ modules[l].Llama.generate = "my_generate"
            /\ modules[l].Llama.eval = "eval_with_progress"

\* The patch step was applied to an already patched library.
C6_Witness ==
  /\ patch_log.applied
  /\ patch_log.before.Llama.is_patched
  /\ modules[patch_log.lib].Llama.is_patched

\* C7: the import attempts of a call follow the candidate list: attempted
\* candidates are eligible under the call's flags and not known unavailable,
\* they are tried in list order without passing over an eligible candidate
\* that is still available, and a returned handle is that of the first
\* attempt whose import succeeded.  Off macOS the list is llama_cpp (cpu),
\* llama_cpp_cuda_tensorcores (tensorcores), llama_cpp_cuda, llama_cpp.
C7_AttemptsInListOrder ==
  /\ ~is_macos =>
       LastNames = << [arg |-> "cpu", lib |-> "llama_cpp"],
                      [arg |-> "tensorcores", lib |-> "llama_cpp_cuda_tensorcores"],
                      [arg |-> None, lib |-> "llama_cpp_cuda"],
                      [arg |-> None, lib |-> "llama_cpp"] >>
  /\ \A k \in 1..Len(last.attempts) :
       LET a == last.attempts[k]
       IN /\ a.i \in 1..Len(LastNames)
          /\ LastNames[a.i].lib = a.lib
          /\ Eligible(a.i)
          /\ ~a.known
          /\ a.lib \notin last.pre_not_available
          /\ k > 1 => last.attempts[k - 1].i < a.i
          /\ \A j \in 1..(a.i - 1) :
               \/ ~Eligible(j)
               \/ LastNames[j].lib \in last.pre_not_available
               \/ \E m \in 1..(k - 1) :
                    /\ last.attempts[m].lib = LastNames[j].lib
                    /\ last.attempts[m].exc = "ImportError"
          /\ a.exc = None => k = Len(last.attempts)
  /\ (last.called /\ last.outcome = "return" /\ last.value # None)
       => /\ last.attempts # << >>
          /\ last.attempts[Len(last.attempts)].lib = last.value
          /\ last.attempts[Len(last.attempts)].exc = None
          /\ \A k \in 1..(Len(last.attempts) - 1) : last.attempts[k].exc # None

\* Off macOS a call passed over the cpu candidate, failed to import one
\* candidate and returned the handle of a later one.
C7_Witness ==
  /\ ~is_macos
  /\ last.called
  /\ ~last.args["cpu"]
  /\ Len(last.attempts) >= 2
  /\ last.outcome = "return"
  /\ last.value # None

\* C8: when no variant is loaded and every import the call attempts fails
\* with the not-found error, the call raises nothing, returns null, and all
\* the variants it attempted are in the unavailable set.
C8_AllMissingReturnsNone ==
  (/\ last.called
   /\ last.pre_imported = None
   /\ \A k \in 1..Len(last.attempts) : last.attempts[k].exc = "ImportError")
  => /\ last.outcome = "return"
     /\ last.value = None
     /\ imported_module = None
     /\ Attempted \subseteq not_available_modules
     /\ \A i \in 1..Len(LastNames) :
          Eligible(i) => LastNames[i].lib \in not_available_modules

\* A call tried several candidates, found none and returned null.
C8_Witness ==
  /\ last.called
  /\ last.pre_imported = None
  /\ Len(last.attempts) >= 2
  /\ last.outcome = "return"
  /\ last.value = None

\* C9: an exception of the import or of the patch step that is not
\* ImportError ends the call: the call raises that exception, the attempt
\* it came from is the call's last, and the variant is not recorded as
\* unavailable.
C9_OtherErrorsPropagate ==
  /\ \A k \in 1..Len(last.attempts) :
       last.attempts[k].exc = "OtherError"
         => /\ k = Len(last.attempts)
            /\ last.outcome = "raise"
            /\ last.value = "OtherError"
            /\ last.attempts[k].lib \notin not_available_modules
  /\ \A k \in 1..Len(last.patched) :
       last.patched[k].exc # None
         => /\ last.patched[k].exc # "ImportError"
            /\ last.outcome = "raise"
            /\ last.value = last.patched[k].exc
            /\ last.attempts[Len(last.attempts)].lib = last.patched[k].lib
            /\ last.patched[k].lib \notin not_available_modules
  /\ \A k \in 1..Len(last.caught) :
       \E m \in 1..Len(last.attempts) :
         /\ last.attempts[m].lib = last.caught[k]
         /\ last.attempts[m].exc = "ImportError"

\* A call skipped a missing variant and was then ended by another error.
C9_Witness ==
  /\ last.called
  /\ last.outcome = "raise"
  /\ last.value \in {"OtherError", "AttributeError"}
  /\ Len(last.attempts) >= 2

\* C10: not_available_modules only grows: after every step it is a superset
\* of what it was before.
C10_UnavailableGrows ==
  [][not_available_modules \subseteq not_available_modules']_vars

\* A call that started with a non-empty unavailable set added to it.
C10_Witness ==
  /\ last.called
  /\ last.pre_not_available # {}
  /\ last.pre_not_available \subseteq not_available_modules
  /\ last.pre_not_available # not_available_modules

\* C11: on macOS the candidate list is the single unconditional entry
\* llama_cpp whatever the flags are; the only variant a call attempts, loads
\* or marks is llama_cpp, and no call raises the conflict error.
C11_MacOSSingleCandidate ==
  is_macos
  => /\ LastNames = << [arg |-> None, lib |-> "llama_cpp"] >>
     /\ Attempted \subseteq {"llama_cpp"}
     /\ Len(last.attempts) <= 1
     /\ imported_module \in {None, "llama_cpp"}
     /\ not_available_modules \subseteq {"llama_cpp"}
     /\ last.value # "Conflict"
     /\ last.refused = None

\* On macOS a call made with both flags set attempted an import, after an
\* earlier call.
C11_Witness ==
  /\ is_macos
  /\ n_calls >= 2
  /\ last.called
  /\ last.args["cpu"]
  /\ last.args["tensorcores"]
  /\ last.attempts # << >>

\* C13: the loaded-variant marker, when set, is not a member of
\* not_available_modules.
C13_MarkerNotUnavailable ==
  imported_module # None => imported_module \notin not_available_modules

\* A variant is loaded while another one is recorded as unavailable.
C13_Witness ==
  /\ imported_module # None
  /\ not_available_modules # {}
  /\ last.called
  /\ last.pre_imported = imported_module

\* C14: the import attempts of one call are of pairwise different variant
\* names; when the cpu-gated llama_cpp attempt fails with ImportError, the
\* unconditional llama_cpp entry is not attempted in that call.
C14_NoDoubleImportInCall ==
  /\ \A k, m \in 1..Len(last.attempts) :
       last.attempts[k].lib = last.attempts[m].lib => k = m
  /\ (/\ ~is_macos
      /\ \E k \in 1..Len(last.attempts) :
           last.attempts[k].i = 1 /\ last.attempts[k].exc = "ImportError")
     => \A k \in 1..Len(last.attempts) : last.attempts[k].i # 4

\* Off macOS the cpu-gated llama_cpp attempt failed and the call went
\* through the whole list, past the unconditional llama_cpp entry.
C14_Witness ==
  /\ ~is_macos
  /\ last.called
  /\ last.args["cpu"]
  /\ last.attempts # << >>
  /\ last.attempts[1].i = 1
  /\ last.attempts[1].exc = "ImportError"
  /\ last.outcome = "return"
  /\ last.value = None

\* The tokens of a list of batches, in order.
RECURSIVE Flatten(_)
Flatten(bs) ==
  IF bs = << >>
    THEN << >>
    ELSE Flatten(SubSeq(bs, 1, Len(bs) - 1)) \o bs[Len(bs)].batch

\* C15: eval_with_progress decodes consecutive, non-overlapping batches of
\* tokens in input order, each of 1 to n_batch tokens and with n_past equal
\* to n_tokens at that moment; a call that returns has decoded every token
\* once, raised n_tokens by len(tokens) and stored tokens in input_ids from
\* the old n_tokens on.
C15_BatchesCoverTokens ==
  eval_log.called =>
    LET B == eval_log.batches
        T == eval_log.tokens
        pre == eval_log.pre
    IN /\ \A k \in 1..Len(B) :
            /\ Len(B[k].batch) >= 1
            /\ Len(B[k].batch) <= pre.n_batch
            /\ B[k].start = Len(Flatten(SubSeq(B, 1, k - 1)))
            /\ B[k].batch = SubSeq(T, B[k].start + 1, B[k].start + Len(B[k].batch))
            /\ B[k].n_past = pre.n_tokens + B[k].start
       /\ llm.n_tokens = pre.n_tokens + Len(Flatten(B))
       /\ eval_log.exc = None
            => /\ Flatten(B) = T
               /\ llm.n_tokens = pre.n_tokens + Len(T)
               /\ \A j \in 1..Len(T) : llm.input_ids[pre.n_tokens + j] = T[j]
               /\ \A k \in 1..N_ctx :
                    (k <= pre.n_tokens \/ k > pre.n_tokens + Len(T))
                      => llm.input_ids[k] = pre.input_ids[k]

\* A call on an instance that already held tokens returned after decoding
\* several batches, the last one shorter than n_batch.
C15_Witness ==
  /\ eval_log.called
  /\ eval_log.exc = None
  /\ eval_log.pre.n_tokens > 0
  /\ Len(eval_log.batches) >= 2
  /\ Len(eval_log.batches[Len(eval_log.batches)].batch) < eval_log.pre.n_batch

\* The generator of the last generate call has run its body up to the
\* first yield, the end or an exception.
Started == gen.state \in {"running", "done", "raised"}

\* C16: a started generator of the patched generate has invoked
\* process_llamacpp_cache exactly once, before any output, when
\* shared.args.streaming_llm was enabled and never when it was disabled; it
\* has passed its arguments unchanged to the original generate and yields
\* the outputs of the original generate in order.
C16_TrimOnceThenPassThrough ==
  Started =>
    /\ gen.flag => /\ Len(gen.trims) = 1
                   /\ gen.events # << >>
                   /\ gen.events[1] = "process_llamacpp_cache"
    /\ ~gen.flag => gen.trims = << >>
    /\ gen.exc = None
    /\ gen.original_called
    /\ gen.passed = gen.call
    /\ gen.yielded = SubSeq(gen.outputs, 1, Len(gen.yielded))
    /\ gen.state = "done" => gen.yielded = gen.outputs

\* What holds of the code: the statement of C16 for calls that pass the
\* token sequence positionally; a call that passes it by keyword while the
\* flag is enabled raises IndexError at `args[0]` before the trimming step
\* and before the original generate is called.
C16_PositionalPassThrough ==
  Started =>
    IF gen.flag /\ gen.call.args = << >>
      THEN /\ gen.state = "raised"
           /\ gen.exc = "IndexError"
           /\ gen.trims = << >>
           /\ ~gen.original_called
           /\ gen.yielded = << >>
      ELSE /\ Len(gen.trims) = (IF gen.flag THEN 1 ELSE 0)
           /\ gen.flag => gen.events[1] = "process_llamacpp_cache"
           /\ gen.flag => gen.trims[1].new_sequence = gen.call.args[1]
           /\ gen.exc = None
           /\ gen.original_called
           /\ gen.passed = gen.call
           /\ gen.yielded = SubSeq(gen.outputs, 1, Len(gen.yielded))
           /\ gen.state = "done" => gen.yielded = gen.outputs

\* C12: llama_cpp_lib() called from two threads without synchronisation.
\* A thread writes the marker only if its own check at line 41 read the
\* marker as empty or as the name it writes; the check does not cover the
\* time up to the write, so the write may replace another name.
C12_WriteFollowsOwnCheck ==
  \A k \in 1..Len(marker_writes) :
    marker_writes[k].seen \in {None, marker_writes[k].name}

\* The race: both threads passed the check while the marker was empty, each
\* imported a different variant and returned its handle, the marker was
\* written twice with different names, and no thread raised.
C12_Witness ==
  /\ Len(marker_writes) = 2
  /\ marker_writes[1].thread # marker_writes[2].thread
  /\ marker_writes[1].name # marker_writes[2].name
  /\ marker_writes[1].seen = None
  /\ marker_writes[2].seen = None
  /\ marker_writes[2].before = marker_writes[1].name
  /\ \A t \in Threads : pc[t] = "done" /\ loc[t].exc = None /\ loc[t].result # None
  /\ \E t, u \in Threads : loc[t].result # loc[u].result
  /\ modules[marker_writes[1].name].loaded
  /\ modules[marker_writes[2].name].loaded

====
